---- MODULE Spec2Model ----
(***************************************************************************)
(* State-machine model of repertoire_patcher.py: the Repertoire index      *)
(* built from a PGN file, and the probability-ordered frontier search of   *)
(* get_most_common_unknown_positions.                                      *)
(*                                                                         *)
(* Boards are modelled by their move stack (a sequence of abstract UCI     *)
(* moves); board.fen() is modelled by Fen, which forgets the order in      *)
(* which each side played its moves, so that transpositions share a key.   *)
(* Probabilities (Python floats) are modelled as exact reduced fractions.  *)
(***************************************************************************)
EXTENDS Integers, Sequences, FiniteSets

\* ------------------------------------------------------------------ bounds
NumMoves == 2
MaxPly == 3
MaxLines == 2
MaxGames == 2
MaxCount == 2
MaxTotal == 2
MaxNumPositions == 2
MaxTime == 6

Moves == 1..NumMoves

\* ------------------------------------------------------------- chess.Board
\* A board is its move stack; chess.Board() is the empty stack.
NewBoard == << >>

\* board.push(move) / board.push_uci(uci)
Push(board, move) == Append(board, move)

\* White plays the odd plies, Black the even ones.
SideMoves(board, side) == {i \in DOMAIN board : i % 2 = side}

\* board.fen(): the position reached, independent of the move order of
\* each side (how often each side has played each move).
Fen(board) ==
    [side \in {0, 1}, m \in Moves |->
        Cardinality({i \in SideMoves(board, side) : board[i] = m})]

\* ----------------------------------------------------------- chess.pgn tree
\* A game is the prefix-closed set of the move paths of its nodes; the game
\* root is the empty path.  node.board() is the path itself.
Prefixes(line) == {SubSeq(line, 1, k) : k \in 0..Len(line)}

Tree(lines) == UNION {Prefixes(l) : l \in lines} \cup {<< >>}

RECURSIVE SeqsUpTo(_, _)
SeqsUpTo(S, n) ==
    IF n = 0 THEN {<< >>}
    ELSE LET shorter == SeqsUpTo(S, n - 1)
         IN  shorter \cup {Append(s, x) : s \in {t \in shorter : Len(t) = n - 1}, x \in S}

Lines == SeqsUpTo(Moves, MaxPly) \ {<< >>}

GameInputs == {Tree(ls) : ls \in {x \in SUBSET Lines : Cardinality(x) <= MaxLines}}

PgnInputs == SeqsUpTo(GameInputs, MaxGames)

\* Files of at most one game, the game being a single line without variations.
LinePgnInputs == {<< >>, << Tree({}) >>} \cup {<< Tree({l}) >> : l \in Lines}

\* node.variations: the children of a node, main line first (here: in
\* ascending order of the move played).
RECURSIVE ChildrenFrom(_, _, _)
ChildrenFrom(game, path, m) ==
    IF m > NumMoves THEN << >>
    ELSE (IF Append(path, m) \in game THEN << Append(path, m) >> ELSE << >>)
         \o ChildrenFrom(game, path, m + 1)

Variations(game, path) == ChildrenFrom(game, path, 1)

\* node.variation(0).move
MainMove(game, path) == Variations(game, path)[1][Len(path) + 1]

\* ------------------------------------------------------------ probabilities
\* A probability is an exact fraction in lowest terms; 1 is the int literal of
\* PositionNode(chess.Board(), 1), 0 the initial max_probability.
RECURSIVE GCD(_, _)
GCD(a, b) == IF b = 0 THEN a ELSE GCD(b, a % b)

Frac(n, d) == LET g == GCD(n, d) IN [num |-> n \div g, den |-> d \div g]

One == [num |-> 1, den |-> 1]
Zero == [num |-> 0, den |-> 1]

\* p > q, p <= q on floats
Gt(p, q) == p.num * q.den > q.num * p.den
Le(p, q) == ~Gt(p, q)

\* p * q
Times(p, q) == Frac(p.num * q.num, p.den * q.den)

Plus(p, q) == Frac(p.num * q.den + q.num * p.den, p.den * q.den)

\* ---------------------------------------------------------------- the oracle
\* The decoded JSON payload of the opening explorer: the number of games in
\* the position (white + draws + black) and, per candidate move, its UCI
\* string and the number of games in which it was played.  A request that
\* fails (network error, undecodable or incomplete payload) has ok = FALSE.
Candidate(uci, games) == [uci |-> uci, games |-> games]

RECURSIVE MoveLists(_)
MoveLists(ucis) ==
    {<< >>} \cup
    UNION {{<<Candidate(u, g)>> \o tail : g \in 0..MaxCount, tail \in MoveLists(ucis \ {u})}
           : u \in ucis}

FailedResponse == [ok |-> FALSE, total |-> 0, moves |-> << >>]

OracleResponses ==
    {[ok |-> TRUE, total |-> t, moves |-> ms] : t \in 0..MaxTotal, ms \in MoveLists(Moves)}
    \cup {FailedResponse}

\* The answers of a fixed opening: after 1.d4 (move 1) the explorer knows
\* 1...d5 (move 1) in 5 of 10 games and 1...Nf6 (move 2) in 3 of 10, in either
\* order; after 1.d4 d5 2.c4 (move 2) it may list any candidates out of 10 games.
RECURSIVE CandidateLists(_, _)
CandidateLists(ucis, max_games) ==
    {<< >>} \cup
    UNION {{<<Candidate(u, g)>> \o tail :
                g \in 0..max_games, tail \in CandidateLists(ucis \ {u}, max_games)}
           : u \in ucis}

AfterD4 == <<1>>

AfterD4D5C4 == <<1, 1, 2>>

AfterD4Nf6 == <<1, 2>>

ScenarioResponses(board) ==
    IF board = AfterD4
    THEN {[ok |-> TRUE, total |-> 10, moves |-> <<Candidate(1, 5), Candidate(2, 3)>>],
          [ok |-> TRUE, total |-> 10, moves |-> <<Candidate(2, 3), Candidate(1, 5)>>]}
    ELSE IF board = AfterD4D5C4
    THEN {[ok |-> TRUE, total |-> 10, moves |-> ms] : ms \in CandidateLists(Moves, 10)}
    ELSE OracleResponses

\* The answers of an explorer that knows every move equally well or has no
\* game of the position, or fails.
RECURSIVE EveryMoveOnce(_)
EveryMoveOnce(m) ==
    IF m > NumMoves THEN << >> ELSE <<Candidate(m, 1)>> \o EveryMoveOnce(m + 1)

PlainResponses ==
    {[ok |-> TRUE, total |-> NumMoves, moves |-> EveryMoveOnce(1)],
     [ok |-> TRUE, total |-> 0, moves |-> << >>],
     FailedResponse}

\* ------------------------------------------------------------------- state
VARIABLES
    pgn_file,           \* the games of the PGN file, in file order
    is_black,           \* the analysed side moves second
    num_positions,      \* requested number of unknown positions
    pc,                 \* control position
    games_read,         \* number of games read from pgn_file so far
    pgn_nodes,          \* worklist of Repertoire.__init__
    response_map,       \* Repertoire.response_map: Fen -> move
    leaf_positions,     \* the frontier, a list of PositionNode
    unknown_positions,  \* the result list
    node,               \* the node popped in this iteration
    error,              \* the exception that ended the run, or "none"
    api_calls,          \* history: the boards sent to the oracle and its answers
    created,            \* history: every PositionNode, as constructed
    popped,             \* history: the nodes popped, in order, as popped
    explorer,           \* environment: which answers the opening explorer gives
    now,                \* environment: the clock, in units of a quarter second
    last_call_time,     \* LichessApiCaller.last_call_time: << >> (None) or <<t>>
    call_times          \* history: per call, the clock when delay_call was
                        \* entered and the value last_call_time was given

vars == <<pgn_file, is_black, num_positions, pc, games_read, pgn_nodes,
          response_map, leaf_positions, unknown_positions, node, error,
          api_calls, created, popped, explorer, now, last_call_time, call_times>>

inputs == <<pgn_file, is_black, num_positions, explorer>>
build_vars == <<games_read, pgn_nodes, response_map>>
caller_vars == <<now, last_call_time, call_times>>
search_vars == <<leaf_positions, unknown_positions, node, api_calls, created,
                 popped, caller_vars>>

\* class PositionNode
PositionNode(position, probability) == [board |-> position, probability |-> probability]

NoNode == PositionNode(NewBoard, Zero)

EmptyMap == [k \in {} |-> 0]

MapSet(map, key, value) ==
    [k \in DOMAIN map \cup {key} |-> IF k = key THEN value ELSE map[k]]

\* The answers the opening explorer can give for a board.
ExplorerResponses(board) ==
    IF explorer = "scenario" THEN ScenarioResponses(board)
    ELSE IF explorer = "plain" THEN PlainResponses
    ELSE OracleResponses

\* ------------------------------------------------------ Repertoire.__init__
\* game = chess.pgn.read_game(pgn_file); break at the end of the file,
\* else seed the worklist of this game.
ReadGame ==
    /\ pc = "build"
    /\ pgn_nodes = << >>
    /\ IF games_read = Len(pgn_file)
       THEN /\ pc' = "seed"
            /\ UNCHANGED <<games_read, pgn_nodes>>
       ELSE /\ games_read' = games_read + 1
            /\ pgn_nodes' = IF is_black
                            THEN Variations(pgn_file[games_read + 1], << >>)
                            ELSE << << >> >>
            /\ pc' = pc
    /\ UNCHANGED <<inputs, response_map, search_vars, error>>

\* One iteration of "while pgn_nodes": pop the last node, raise on several
\* variations, skip a leaf, else index the node and push the replies.
VisitNode ==
    /\ pc = "build"
    /\ pgn_nodes /= << >>
    /\ LET game == pgn_file[games_read]
           pgn_node == pgn_nodes[Len(pgn_nodes)]
           rest == SubSeq(pgn_nodes, 1, Len(pgn_nodes) - 1)
           nvar == Len(Variations(game, pgn_node))
       IN  IF nvar > 1
           THEN /\ error' = "multiple_moves"
                /\ pc' = "raised"
                /\ pgn_nodes' = rest
                /\ UNCHANGED response_map
           ELSE IF nvar = 0
           THEN /\ pgn_nodes' = rest
                /\ UNCHANGED <<response_map, error, pc>>
           ELSE /\ response_map' =
                       MapSet(response_map, Fen(pgn_node), MainMove(game, pgn_node))
                /\ pgn_nodes' = rest \o Variations(game, Variations(game, pgn_node)[1])
                /\ UNCHANGED <<error, pc>>
    /\ UNCHANGED <<inputs, games_read, search_vars>>

\* ------------------------------------------------------------ oracle lookup
\* Faulty variant of LichessError: a failed request counts as an answer
\* without candidates.
LichessError_swallowed(response) ==
    IF response.moves /= << >> /\ response.total = 0 THEN "zero_division" ELSE "none"

\* LichessApiCaller.call_api: the request and json.loads raise on failure.
\* get_most_common_moves_from_lichess: a missing key raises, and so does the
\* division by a total of zero games for the first candidate move.
LichessError(response) ==
    IF ~response.ok THEN "oracle_failure"
    ELSE IF response.moves /= << >> /\ response.total = 0 THEN "zero_division"
    ELSE "none"

\* ------------------------------------------------ LichessApiCaller.delay_call
\* timedelta(seconds=0.5), in quarter seconds
MinInterval == 2

None == << >>

\* Faulty variant of sleep_time: delay_call never sleeps.
sleep_time_none(t, last) == 0

\* The argument of time.sleep, 0 when delay_call does not sleep.
sleep_time(t, last) ==
    IF last /= None /\ t - last[1] < MinInterval
    THEN MinInterval - (t - last[1])
    ELSE 0

\* delay_call, run by call_api before the request: the caller sleeps for the
\* remaining time and records the time of the call.
delay_call ==
    /\ now' = now + sleep_time(now, last_call_time)
    /\ last_call_time' = <<now'>>
    /\ call_times' = Append(call_times, [entered |-> now, started |-> now'])

\* variation_num_games / total_num_games
relative_probability(games, total) == Frac(games, total)

\* get_most_common_moves_from_lichess: the list of (uci, relative probability)
get_most_common_moves_from_lichess(response) ==
    [i \in 1..Len(response.moves) |->
        <<response.moves[i].uci,
          relative_probability(response.moves[i].games, response.total)>>]

\* Faulty variants of next_probability: the parent's probability is dropped;
\* the factors are added.
next_probability_relative_only(probability, relative) == relative

next_probability_sum(probability, relative) == Plus(probability, relative)

\* position.probability * next_move[1]
next_probability(probability, relative) == Times(probability, relative)

\* The moves of a list of (uci, relative probability), in order.
Ucis(next_moves) == [i \in 1..Len(next_moves) |-> next_moves[i][1]]

\* Faulty variant of get_most_common_positions: the moves are pushed on the
\* board of the position itself, which all the new nodes then share.
get_most_common_positions_shared(position, response) ==
    LET next_moves == get_most_common_moves_from_lichess(response)
    IN  [i \in 1..Len(next_moves) |->
            PositionNode(position.board \o Ucis(next_moves),
                         next_probability(position.probability, next_moves[i][2]))]

\* get_most_common_positions: one PositionNode per candidate move, on a copy
\* of the board with the move pushed.
get_most_common_positions(position, response) ==
    LET next_moves == get_most_common_moves_from_lichess(response)
    IN  [i \in 1..Len(next_moves) |->
            PositionNode(Push(position.board, next_moves[i][1]),
                         next_probability(position.probability, next_moves[i][2]))]

Range(seq) == {seq[i] : i \in DOMAIN seq}

\* ---------------------------------------------------- pop_most_probable_node
\* The scan of the for loop; max_idx 0 stands for None.
RECURSIVE ScanMax(_, _, _, _)
ScanMax(positions, idx, max_idx, max_probability) ==
    IF idx > Len(positions) THEN max_idx
    ELSE IF Gt(positions[idx].probability, max_probability)
         THEN ScanMax(positions, idx + 1, idx, positions[idx].probability)
         ELSE ScanMax(positions, idx + 1, max_idx, max_probability)

\* Faulty variants of max_idx_of: the first node is taken whatever its
\* probability; the scan compares with >= and so keeps the last maximum.
max_idx_first(positions) == IF positions = << >> THEN 0 ELSE 1

RECURSIVE ScanMaxGe(_, _, _, _)
ScanMaxGe(positions, idx, max_idx, max_probability) ==
    IF idx > Len(positions) THEN max_idx
    ELSE IF Le(max_probability, positions[idx].probability)
         THEN ScanMaxGe(positions, idx + 1, idx, positions[idx].probability)
         ELSE ScanMaxGe(positions, idx + 1, max_idx, max_probability)

max_idx_last_max(positions) == ScanMaxGe(positions, 1, 0, Zero)

\* Faulty variant of max_idx_of: max_probability starts from 1.
max_idx_from_one(positions) == ScanMax(positions, 1, 0, One)

max_idx_of(positions) == ScanMax(positions, 1, 0, Zero)

\* list.pop(idx)
ListPop(seq, idx) == SubSeq(seq, 1, idx - 1) \o SubSeq(seq, idx + 1, Len(seq))

\* -------------------------------------------- get_most_common_unknown_positions
\* Faulty variant of Seed: the frontier starts from the initial position for
\* either side.
SeedInitialOnly ==
    /\ pc = "seed"
    /\ leaf_positions' = <<PositionNode(NewBoard, One)>>
    /\ created' = created \cup {PositionNode(NewBoard, One)}
    /\ pc' = "loop"
    /\ UNCHANGED <<inputs, build_vars, unknown_positions, node, error, api_calls,
                   popped, caller_vars>>

\* initial_position, leaf_positions and unknown_positions are set up; when the
\* analysed side moves second the oracle is asked for the initial position.
Seed ==
    /\ pc = "seed"
    /\ LET initial_position == PositionNode(NewBoard, One)
       IN  IF is_black
           THEN \E response \in ExplorerResponses(initial_position.board) :
                  /\ delay_call
                  /\ api_calls' = Append(api_calls,
                                         [board |-> initial_position.board,
                                          response |-> response])
                  /\ IF LichessError(response) /= "none"
                     THEN /\ error' = LichessError(response)
                          /\ pc' = "raised"
                          /\ created' = created \cup {initial_position}
                          /\ UNCHANGED leaf_positions
                     ELSE /\ leaf_positions' =
                                get_most_common_positions(initial_position, response)
                          /\ created' = created \cup {initial_position}
                                                \cup Range(leaf_positions')
                          /\ pc' = "loop"
                          /\ UNCHANGED error
           ELSE /\ leaf_positions' = <<initial_position>>
                /\ created' = created \cup {initial_position}
                /\ pc' = "loop"
                /\ UNCHANGED <<error, api_calls, caller_vars>>
    /\ UNCHANGED <<inputs, build_vars, unknown_positions, node, popped>>

\* Faulty variant of ReturnExhausted: the loop does not leave on an empty list.
ReturnExhausted_spin ==
    /\ pc = "loop"
    /\ leaf_positions = << >>
    /\ UNCHANGED vars

\* "while leaf_positions" on an empty list: return unknown_positions.
ReturnExhausted ==
    /\ pc = "loop"
    /\ leaf_positions = << >>
    /\ pc' = "returned"
    /\ UNCHANGED <<inputs, build_vars, search_vars, error>>

\* node = pop_most_probable_node(leaf_positions)
pop_most_probable_node ==
    /\ pc = "loop"
    /\ leaf_positions /= << >>
    /\ LET max_idx == max_idx_of(leaf_positions)
       IN  IF max_idx = 0
           THEN /\ error' = "assertion"
                /\ pc' = "raised"
                /\ UNCHANGED <<leaf_positions, node, popped>>
           ELSE /\ node' = leaf_positions[max_idx]
                /\ leaf_positions' = ListPop(leaf_positions, max_idx)
                /\ popped' = Append(popped, node')
                /\ pc' = "classify"
                /\ UNCHANGED error
    /\ UNCHANGED <<inputs, build_vars, unknown_positions, api_calls, created,
                   caller_vars>>

\* Faulty variants of play_repertoire_move: the lookup never finds a move; a
\* found move is not pushed.
play_repertoire_move_always_miss ==
    /\ pc = "classify"
    /\ pc' = "record"
    /\ UNCHANGED <<inputs, build_vars, search_vars, error>>

play_repertoire_move_no_push ==
    /\ pc = "classify"
    /\ pc' = IF Fen(node.board) \in DOMAIN response_map THEN "expand" ELSE "record"
    /\ UNCHANGED <<inputs, build_vars, search_vars, error>>

\* repertoire_move_exists = play_repertoire_move(repertoire, node.board)
play_repertoire_move ==
    /\ pc = "classify"
    /\ IF Fen(node.board) \in DOMAIN response_map
       THEN /\ node' = [node EXCEPT !.board = Push(@, response_map[Fen(node.board)])]
            /\ pc' = "expand"
       ELSE /\ node' = node
            /\ pc' = "record"
    /\ UNCHANGED <<inputs, build_vars, leaf_positions, unknown_positions, error,
                   api_calls, created, popped, caller_vars>>

\* leaf_positions.extend(get_most_common_positions(node))
Expand ==
    /\ pc = "expand"
    /\ \E response \in ExplorerResponses(node.board) :
         /\ delay_call
         /\ api_calls' = Append(api_calls, [board |-> node.board, response |-> response])
         /\ IF LichessError(response) /= "none"
            THEN /\ error' = LichessError(response)
                 /\ pc' = "raised"
                 /\ UNCHANGED <<leaf_positions, created, node>>
            ELSE /\ leaf_positions' = leaf_positions \o get_most_common_positions(node, response)
                 /\ created' = created \cup Range(get_most_common_positions(node, response))
                 /\ node' = NoNode
                 /\ pc' = "loop"
                 /\ UNCHANGED error
    /\ UNCHANGED <<inputs, build_vars, unknown_positions, popped>>

\* Faulty variant of Record: a position already in the list is not appended
\* and does not count again.
Record_once ==
    /\ pc = "record"
    /\ unknown_positions' =
          IF \E i \in DOMAIN unknown_positions :
                 Fen(unknown_positions[i].board) = Fen(node.board)
          THEN unknown_positions
          ELSE Append(unknown_positions, node)
    /\ pc' = IF Len(unknown_positions') = num_positions THEN "returned" ELSE "loop"
    /\ node' = NoNode
    /\ UNCHANGED <<inputs, build_vars, leaf_positions, error, api_calls, created,
                   popped, caller_vars>>

\* unknown_positions.append(node), and the return once num_positions are found
Record ==
    /\ pc = "record"
    /\ unknown_positions' = Append(unknown_positions, node)
    /\ pc' = IF Len(unknown_positions') = num_positions THEN "returned" ELSE "loop"
    /\ node' = NoNode
    /\ UNCHANGED <<inputs, build_vars, leaf_positions, error, api_calls, created,
                   popped, caller_vars>>

\* ---------------------------------------------------------- specifications
InitState ==
    /\ pc = "build"
    /\ games_read = 0
    /\ pgn_nodes = << >>
    /\ response_map = EmptyMap
    /\ leaf_positions = << >>
    /\ unknown_positions = << >>
    /\ node = NoNode
    /\ error = "none"
    /\ api_calls = << >>
    /\ created = {}
    /\ popped = << >>
    /\ now = 0
    /\ last_call_time = None
    /\ call_times = << >>

\* A whole run of get_most_common_unknown_positions on a single-line repertoire.
Init ==
    /\ pgn_file \in LinePgnInputs
    /\ is_black \in BOOLEAN
    /\ num_positions \in 0..MaxNumPositions
    /\ explorer = "any"
    /\ InitState

Next ==
    \/ ReadGame
    \/ VisitNode
    \/ Seed
    \/ ReturnExhausted
    \/ pop_most_probable_node
    \/ play_repertoire_move
    \/ Expand
    \/ Record

Spec == Init /\ [][Next]_vars

\* The same runs, the interpreter taking the next step whenever there is one
\* (a single thread, no step of which waits for anything but the oracle's
\* answer and the end of a sleep).
SpecFair == Init /\ [][Next]_vars /\ WF_vars(Next)

\* Runs on the two repertoires in which a position is reached by two move
\* orders: for Black the lines 1.a x and 1.b x (then 2.b and 2.a transpose),
\* for White the lines 1.a x 2.b and 1.a y 2.b (then 2...y and 2...x transpose).
TranspositionPgnInputs(black) ==
    IF black THEN {<< Tree({<<1, 1>>, <<2, 1>>}) >>}
             ELSE {<< Tree({<<1, 1, 2>>, <<1, 2, 2>>}) >>}

InitTransposition ==
    /\ is_black \in BOOLEAN
    /\ pgn_file \in TranspositionPgnInputs(is_black)
    /\ num_positions \in 0..MaxNumPositions
    /\ explorer = "any"
    /\ InitState

SpecTransposition == InitTransposition /\ [][Next]_vars

\* Time passes while the program runs.
Tick ==
    /\ pc \notin {"returned", "raised"}
    /\ now < MaxTime
    /\ now' = now + 1
    /\ UNCHANGED <<inputs, build_vars, pc, error, leaf_positions, unknown_positions,
                   node, api_calls, created, popped, last_call_time, call_times>>

\* Runs with the clock: the time between the steps of the program is
\* arbitrary, the explorer answers plainly.
InitPacing ==
    /\ is_black \in BOOLEAN
    /\ pgn_file \in TranspositionPgnInputs(is_black)
    /\ num_positions \in 0..MaxNumPositions
    /\ explorer = "plain"
    /\ InitState

NextPacing == Next \/ Tick

SpecPacing == InitPacing /\ [][NextPacing]_vars

\* The construction of the Repertoire alone, over files of several games.
InitBuild ==
    /\ pgn_file \in PgnInputs
    /\ is_black \in BOOLEAN
    /\ num_positions = 0
    /\ explorer = "any"
    /\ InitState

NextBuild == ReadGame \/ VisitNode

SpecBuild == InitBuild /\ [][NextBuild]_vars

\* The run of the worked example: the repertoire is the single line
\* 1.d4 d5 2.c4, analysed for White, and the explorer answers as in
\* ScenarioResponses.
InitScenario ==
    /\ pgn_file = << Tree({AfterD4D5C4}) >>
    /\ is_black = FALSE
    /\ num_positions \in 1..MaxNumPositions
    /\ explorer = "scenario"
    /\ InitState

SpecScenario == InitScenario /\ [][Next]_vars

\* ===================================================================== claims
\* Helpers of the claims' formulas.
Returned == pc = "returned"

Last(seq) == seq[Len(seq)]

IsPrefix(s, t) == Len(s) <= Len(t) /\ SubSeq(t, 1, Len(s)) = s

Positive(p) == Gt(p, Zero)

\* Every relative probability the oracle has returned so far lies in [0, 1].
RelativeIn01 ==
    \A i \in DOMAIN api_calls :
        LET r == api_calls[i].response
        IN  r.ok => \A j \in DOMAIN r.moves : r.moves[j].games <= r.total

RECURSIVE SumGames(_)
SumGames(moves) ==
    IF moves = << >> THEN 0 ELSE moves[1].games + SumGames(Tail(moves))

\* The relative probabilities of every answer so far sum to at most 1.
RelativeSumAtMost1 ==
    \A i \in DOMAIN api_calls :
        LET r == api_calls[i].response
        IN  r.ok => SumGames(r.moves) <= r.total

\* --------------------------------------------------------------------- C1
\* C1 (as claimed): for every num_positions = k, 0 included, the returned list
\* has exactly k entries, or fewer than k when the frontier was exhausted
\* first; never more than k.
C1_ReturnedSize ==
    Returned =>
        \/ Len(unknown_positions) = num_positions
        \/ Len(unknown_positions) < num_positions /\ leaf_positions = << >>

\* --------------------------------------------------------------------- C2
\* C2: when the search returns because num_positions results were found, and
\* every relative probability of the oracle was in [0, 1], no node left in
\* the frontier is more probable than a node of the result.
C2_MostProbableGaps ==
    (Returned /\ Len(unknown_positions) = num_positions /\ RelativeIn01) =>
        \A i \in DOMAIN leaf_positions, j \in DOMAIN unknown_positions :
            Le(leaf_positions[i].probability, unknown_positions[j].probability)

\* A run that returned its requested results after at least two oracle
\* calls, leaving a node of smaller positive probability in the frontier.
C2_Witness ==
    /\ Returned /\ num_positions >= 1 /\ Len(unknown_positions) = num_positions
    /\ RelativeIn01
    /\ Len(api_calls) >= 2
    /\ \E i \in DOMAIN leaf_positions :
           /\ Positive(leaf_positions[i].probability)
           /\ Gt(Last(unknown_positions).probability, leaf_positions[i].probability)

\* --------------------------------------------------------------------- C3
\* The selection step on frontier f yields node n and frontier g by removing
\* the first node of maximal probability and nothing else.
PopsFirstMax(f, g, n) ==
    \E i \in DOMAIN f :
        /\ n = f[i]
        /\ g = SubSeq(f, 1, i - 1) \o SubSeq(f, i + 1, Len(f))
        /\ \A j \in DOMAIN f : Le(f[j].probability, f[i].probability)
        /\ \A j \in 1..(i - 1) : Gt(f[i].probability, f[j].probability)

C4_OnlyGaps ==
    /\ [](\A i \in DOMAIN unknown_positions :
              Fen(unknown_positions[i].board) \notin DOMAIN response_map)
    /\ [][(pc = "classify" /\ Fen(node.board) \in DOMAIN response_map) =>
              (pc' = "expand" /\ unknown_positions' = unknown_positions)]_vars
    /\ [][unknown_positions' /= unknown_positions =>
              /\ unknown_positions' = Append(unknown_positions, node)
              /\ Fen(node.board) \notin DOMAIN response_map]_vars

\* A covered node was expanded and dropped, and a gap was reported next to a
\* non-empty index.
C4_Witness ==
    /\ Len(unknown_positions) >= 1
    /\ Len(api_calls) >= 2
    /\ Cardinality(DOMAIN response_map) >= 2
    /\ Len(unknown_positions[1].board) = 2

\* --------------------------------------------------------------------- C5
RECURSIVE SumProbabilities(_)
SumProbabilities(positions) ==
    IF positions = << >> THEN Zero
    ELSE Plus(positions[1].probability, SumProbabilities(Tail(positions)))

\* child = parent * games / total, as an equation between fractions
IsProduct(child, parent, games, total) ==
    child.num * (parent.den * total) = (parent.num * games) * child.den

C6_MonotonePath ==
    RelativeSumAtMost1 =>
        \A n \in created, d \in created :
            IsPrefix(n.board, d.board) => Le(d.probability, n.probability)

\* A chain root - child - grandchild of strictly decreasing positive
\* probability.
C6_Witness ==
    /\ RelativeSumAtMost1
    /\ \E n \in created, d \in created :
           /\ Len(n.board) >= 1
           /\ Len(d.board) > Len(n.board)
           /\ IsPrefix(n.board, d.board)
           /\ Gt(One, n.probability)
           /\ Gt(n.probability, d.probability)
           /\ Positive(d.probability)

\* --------------------------------------------------------------------- C7
\* The plies at which the analysed side is to move.
Analysed(path) == Len(path) % 2 = (IF is_black THEN 1 ELSE 0)

\* The (position, move) pairs the input prescribes for the analysed side.
Parent(path) == SubSeq(path, 1, Len(path) - 1)

Prescriptions ==
    UNION {{<<Fen(Parent(c)), Last(c)>> :
                c \in {x \in pgn_file[g] : x /= << >> /\ Analysed(Parent(x))}}
           : g \in DOMAIN pgn_file}

InputConflict == \E a \in Prescriptions, b \in Prescriptions : a[1] = b[1] /\ a[2] /= b[2]

Built == pc = "seed"

\* C7 (as claimed): an input that prescribes two distinct continuations for
\* one position never builds, and an input without such a position builds.
C7_ConflictDetection ==
    /\ Built => ~InputConflict
    /\ pc = "raised" => InputConflict

\* --------------------------------------------------------------------- C8
\* C8 (as claimed): the built index has as keys exactly the positions of the
\* tree in which the analysed side is to move and has a continuation, each
\* mapped to that continuation.
C8_IndexExact ==
    Built =>
        /\ DOMAIN response_map = {pr[1] : pr \in Prescriptions}
        /\ \A pr \in Prescriptions : response_map[pr[1]] = pr[2]

\* --------------------------------------------------------------------- C9
\* C9: play_repertoire_move on a position of the index pushes the prescribed
\* move and returns True; on any other position it returns False and leaves
\* the board alone; it never raises and never changes the index.
C9_Lookup ==
    [][pc = "classify" =>
           /\ IF Fen(node.board) \in DOMAIN response_map
              THEN /\ node'.board = Append(node.board, response_map[Fen(node.board)])
                   /\ pc' = "expand"
              ELSE /\ node'.board = node.board
                   /\ pc' = "record"
           /\ response_map' = response_map
           /\ error' = "none"]_vars

\* A miss on the reply to a prescribed first move: the root was a hit and was
\* expanded, the popped reply is not in the non-empty index.
C9_Witness ==
    /\ pc = "record"
    /\ ~is_black
    /\ Len(api_calls) = 1
    /\ Len(node.board) = 2
    /\ DOMAIN response_map /= {}

\* -------------------------------------------------------------------- C10
\* C10: the seeding step yields, for the side moving first, the frontier of
\* the one initial node of probability 1 without an oracle call, and for the
\* side moving second one node per oracle candidate for the initial position,
\* the candidate's move pushed on the initial board, with the candidate's
\* relative probability.
C10_InitialFrontier ==
    [][pc = "seed" =>
           IF is_black
           THEN LET call == Last(api_calls')
                    r == call.response
                IN  /\ Len(api_calls') = 1
                    /\ call.board = << >>
                    /\ pc' = "loop" =>
                          /\ Len(leaf_positions') = Len(r.moves)
                          /\ \A i \in DOMAIN r.moves :
                                /\ leaf_positions'[i].board = <<r.moves[i].uci>>
                                /\ IsProduct(leaf_positions'[i].probability, One,
                                             r.moves[i].games, r.total)
           ELSE /\ leaf_positions' = <<PositionNode(<< >>, One)>>
                /\ api_calls' = << >>
                /\ pc' = "loop"]_vars

\* The side moving second starts from two candidates of different
\* probability.
C10_Witness ==
    /\ pc = "loop"
    /\ is_black
    /\ unknown_positions = << >>
    /\ Len(api_calls) = 1
    /\ Len(leaf_positions) = 2
    /\ leaf_positions[1].probability = Frac(1, 2)
    /\ leaf_positions[2].probability = One

\* ---------------------------------------------------------------------- C11
\* The explorer's answers for the position after 1.d4 d5 2.c4 so far.
RepliesToC4 ==
    {api_calls[i].response : i \in {j \in DOMAIN api_calls : api_calls[j].board = AfterD4D5C4}}

\* No candidate after 1.d4 d5 2.c4 has a relative probability above 3/5.
RepliesAtMostThreeFifths ==
    \A r \in RepliesToC4 :
        \A j \in DOMAIN r.moves : Le(Frac(r.moves[j].games, r.total), Frac(3, 5))

OnlyAfterD4Nf6 == unknown_positions = <<PositionNode(AfterD4Nf6, Frac(3, 10))>>

\* C11 as stated: with the repertoire 1.d4 d5 2.c4, White, one position
\* requested, and the explorer giving 1...d5 0.5 and 1...Nf6 0.3 after 1.d4,
\* the single position returned is the one after 1.d4 Nf6, with probability
\* 0.3, whatever the explorer returns for the position after 1.d4 d5 2.c4.
C11_ScenarioAnyReply ==
    (Returned /\ num_positions = 1) => OnlyAfterD4Nf6

\* C11 amended: the same, provided no candidate the explorer returns for the
\* position after 1.d4 d5 2.c4 has a relative probability above 0.6 (a reply
\* above 0.6 makes a position of probability above 0.3, which is popped and
\* returned before the one after 1.d4 Nf6).
C11_Scenario ==
    (Returned /\ num_positions = 1 /\ RepliesAtMostThreeFifths) => OnlyAfterD4Nf6

\* A run of the example in which a reply to 2.c4 has relative probability
\* exactly 0.6 and the position after 1.d4 Nf6 is returned.
C11_Witness ==
    /\ Returned
    /\ num_positions = 1
    /\ RepliesAtMostThreeFifths
    /\ \E r \in RepliesToC4 : \E j \in DOMAIN r.moves : r.moves[j].games = 6
    /\ OnlyAfterD4Nf6

\* ---------------------------------------------------------------------- C12
\* The step is an oracle lookup.
Lookup == Len(api_calls') = Len(api_calls) + 1

\* C12: a lookup whose response has a total of zero recorded games does not
\* end the run with an error: it yields no candidates, so the frontier gains
\* no node, and the search goes on with the rest of the frontier.
C12_ZeroData ==
    [][(/\ Lookup
        /\ Last(api_calls').response.ok
        /\ Last(api_calls').response.total = 0) =>
            /\ pc' = "loop"
            /\ error' = "none"
            /\ leaf_positions' = leaf_positions]_vars

\* ---------------------------------------------------------------------- C13
FailedLookups == {i \in DOMAIN api_calls : ~api_calls[i].response.ok}

\* C13: once an oracle lookup has failed, during seeding or expansion, the
\* run has ended with the error of that lookup: the failed lookup is the last
\* one made (no retry, no further expansion) and nothing is returned.
C13_FailureAborts ==
    FailedLookups /= {} =>
        /\ pc = "raised"
        /\ error = "oracle_failure"
        /\ FailedLookups = {Len(api_calls)}

\* A lookup fails during an expansion, with a result already recorded.
C13_Witness ==
    /\ FailedLookups /= {}
    /\ Len(api_calls) >= 2
    /\ unknown_positions /= << >>

\* ---------------------------------------------------------------------- C14
\* The candidates the oracle has returned so far, with the total of their
\* response.
ReturnedCandidates ==
    UNION {{[games |-> api_calls[i].response.moves[j].games,
             total |-> api_calls[i].response.total]
            : j \in DOMAIN api_calls[i].response.moves}
           : i \in {k \in DOMAIN api_calls : api_calls[k].response.ok}}

RelativeNonNegative == \A c \in ReturnedCandidates : c.games >= 0

RelativePositive == \A c \in ReturnedCandidates : c.games > 0

FrontierAndResult == Range(leaf_positions) \cup Range(unknown_positions)

\* C15 as stated: with an oracle whose relative probabilities are
\* non-negative and sum to at most 1 per position, every node in the frontier
\* or in the result list has a probability p with 0 < p <= 1.
C15_ProbabilityRange ==
    (RelativeNonNegative /\ RelativeSumAtMost1) =>
        \A n \in FrontierAndResult : Positive(n.probability) /\ Le(n.probability, One)

\* C15 amended: with such an oracle every node in the frontier or in the
\* result list has a probability p with 0 <= p <= 1; p > 0 holds for every
\* node in the result list, and for every node in the frontier when the
\* relative probabilities are all positive.
C15_ProbabilityBounds ==
    (RelativeNonNegative /\ RelativeSumAtMost1) =>
        /\ \A n \in FrontierAndResult : Le(Zero, n.probability) /\ Le(n.probability, One)
        /\ \A n \in Range(unknown_positions) : Positive(n.probability)
        /\ RelativePositive => \A n \in Range(leaf_positions) : Positive(n.probability)

\* With an oracle within its contract the frontier holds a node of
\* probability 0 next to one of probability 1/2, after a position has been
\* recorded.
C15_Witness ==
    /\ RelativeSumAtMost1
    /\ unknown_positions /= << >>
    /\ \E i, j \in DOMAIN leaf_positions :
          /\ leaf_positions[i].probability = Zero
          /\ leaf_positions[j].probability = Frac(1, 2)

\* ---------------------------------------------------------------------- C16
Stopped == pc \in {"returned", "raised"}

\* The index was built and no lookup has failed: every request was answered,
\* and no answer had an empty game count.
IndexBuiltOracleNeverFailed ==
    /\ error /= "multiple_moves"
    /\ \A i \in DOMAIN api_calls : LichessError(api_calls[i].response) = "none"

FrontierNodes ==
    IF is_black THEN created \ {PositionNode(NewBoard, One)} ELSE created

Uncovered(n) == Fen(n.board) \notin DOMAIN response_map

\* The popped nodes whose classification is done.
Classified ==
    IF pc = "classify" THEN SubSeq(popped, 1, Len(popped) - 1) ELSE popped

SamePosition(m, n) == Fen(m.board) = Fen(n.board) /\ m.board /= n.board

\* C17: nodes are never merged, whatever their positions: every node created
\* for the frontier is still in the frontier or was popped on its own, with
\* the probability of its own path, and every popped node found uncovered is
\* an entry of the result list, also when its position is already there.
C17_NoMerging ==
    pc \notin {"build", "seed"} =>
        /\ Range(leaf_positions) \cup Range(popped) = FrontierNodes
        /\ Len(leaf_positions) + Len(popped) = Cardinality(FrontierNodes)
        /\ pc /= "record" => unknown_positions = SelectSeq(Classified, Uncovered)
        /\ pc = "record" => Append(unknown_positions, node) = SelectSeq(Classified, Uncovered)

\* The run returned two entries for one position, reached by two move
\* orders with different probabilities, the second completing the request.
C17_Witness ==
    /\ Returned
    /\ num_positions = 2
    /\ Len(unknown_positions) = 2
    /\ SamePosition(unknown_positions[1], unknown_positions[2])
    /\ unknown_positions[1].probability /= unknown_positions[2].probability

\* ---------------------------------------------------------------------- C18
Max(a, b) == IF a >= b THEN a ELSE b

\* C18: every oracle request has passed through delay_call of the one
\* LichessApiCaller, one request at a time; the first request starts when it
\* is made; every later one starts at least the minimum interval after the
\* start of the one before, the caller having slept for exactly the time
\* that was missing, if any.
C18_Pacing ==
    /\ Len(call_times) = Len(api_calls)
    /\ last_call_time = IF call_times = << >> THEN None ELSE <<Last(call_times).started>>
    /\ \A i \in DOMAIN call_times :
          IF i = 1
          THEN call_times[i].started = call_times[i].entered
          ELSE /\ call_times[i].started - call_times[i - 1].started >= MinInterval
               /\ call_times[i].started =
                      Max(call_times[i].entered, call_times[i - 1].started + MinInterval)
    /\ now >= (IF call_times = << >> THEN 0 ELSE Last(call_times).started)

\* Three requests: the second came too early and was delayed, the third came
\* late enough and was not.
C18_Witness ==
    /\ Len(call_times) = 3
    /\ call_times[2].entered - call_times[1].started < MinInterval
    /\ call_times[2].started > call_times[2].entered
    /\ call_times[3].entered - call_times[2].started >= MinInterval
    /\ call_times[3].started = call_times[3].entered

\* ---------------------------------------------------------------------- C19
NonIncreasing(nodes) ==
    \A i \in DOMAIN nodes :
        i > 1 => Le(nodes[i].probability, nodes[i - 1].probability)

\* C19: with an oracle whose relative probabilities are at most 1, each
\* popped node has a probability at most that of the node popped before it,
\* and the result list is sorted by probability in non-increasing order.
C19_PopOrder ==
    RelativeIn01 => NonIncreasing(popped) /\ NonIncreasing(unknown_positions)

\* Four nodes were popped with three different probabilities, the child of
\* a covered node having been popped after a less probable sibling of its
\* parent was created, and two positions of different probability returned.
C19_Witness ==
    /\ Returned
    /\ RelativeIn01
    /\ Len(popped) >= 4
    /\ Cardinality({popped[i].probability : i \in DOMAIN popped}) >= 3
    /\ Len(unknown_positions) = 2
    /\ unknown_positions[1].probability /= unknown_positions[2].probability

\* ---------------------------------------------------------------------- C20
\* What a step of the search loop may change.
FrameOfStep ==
    (pc \in {"loop", "classify", "expand", "record"} =>
           /\ response_map' = response_map
           /\ IsPrefix(unknown_positions, unknown_positions')
           /\ pc = "loop" =>
                 \/ leaf_positions' = leaf_positions
                 \/ \E i \in DOMAIN leaf_positions :
                       /\ leaf_positions' = ListPop(leaf_positions, i)
                       /\ node' = leaf_positions[i]
           /\ pc = "classify" =>
                 /\ leaf_positions' = leaf_positions
                 /\ unknown_positions' = unknown_positions
                 /\ node'.probability = node.probability
                 /\ node'.board \in {node.board} \cup {Push(node.board, m) : m \in Moves}
           /\ pc = "expand" =>
                 /\ IsPrefix(leaf_positions, leaf_positions')
                 /\ unknown_positions' = unknown_positions
                 /\ \A i \in DOMAIN leaf_positions' :
                       i > Len(leaf_positions) =>
                           \E m \in Moves : leaf_positions'[i].board = Push(node.board, m)
           /\ pc = "record" =>
                 /\ leaf_positions' = leaf_positions
                 /\ unknown_positions' = Append(unknown_positions, node)
                 /\ node \in created)

\* C20: a step of the search loop leaves the index, the entries of the result
\* list and the other nodes of the frontier as they are: selection takes one
\* node out of the frontier; classification changes at most the board of the
\* popped node, by the repertoire move; expansion appends nodes whose boards
\* are the popped node's board with one more move; recording appends the
\* popped node, with the position and probability it was created with.
C20_Frame == [][FrameOfStep]_vars

\* A covered node has just been expanded, the third lookup of the run, while
\* the result list held a position and the frontier another node.
C20_Witness ==
    /\ pc = "loop"
    /\ Len(api_calls) = 3
    /\ LichessError(Last(api_calls).response) = "none"
    /\ unknown_positions /= << >>
    /\ Len(leaf_positions) >= 3
====
